---- MODULE Spec2Model ----
(***************************************************************************)
(* NewWorkspaceService (hoppscotch-common/services/new-workspace/index.ts) *)
(* as a state machine: the provider registry, the active workspace handle  *)
(* with its watcher, the two computed values, and the sixteen async        *)
(* operations, each split at its single await into the synchronous checks  *)
(* (the operation's action) and the settling of the provider's promise     *)
(* (ProviderReturn).                                                       *)
(***************************************************************************)
EXTENDS Integers, Sequences, FiniteSets, Bags

VARIABLES
  registeredProviders,    \* Map<string, WorkspaceProvider>, in insertion order
  activeWorkspaceHandle,  \* a handle's name, or Undefined
  handles,                \* the current .value of every HandleRef
  watcherQueued,          \* the watcher's job is queued in the scheduler
  pending,                \* bag of operations suspended at `await provider.<method>(..)`
  returned,               \* the operation that settled on this step (at most one)
  watcherRan,             \* history: this step was a run of the watcher's job
  attempted,              \* history: the provider objects passed to registerWorkspaceProvider
  firstRegistered         \* history: per providerID, the first provider object passed

vars == <<registeredProviders, activeWorkspaceHandle, handles, watcherQueued,
          pending, returned, watcherRan, attempted, firstRegistered>>

-----------------------------------------------------------------------------
(* Bounds and value universes *)

\* operations that may be in progress at the same time, in Spec and in ConcSpec
MaxPending == 1
MaxConcurrent == 2

Undefined == "undefined"
NoData == "no-data"
NoHandle == "no-handle"
NoArg == "no-arg"
NoComponent == "no-component"

ProviderIDs == {"p1", "p2"}
SelectorIDs == {"p1", "p2", "p3"}
HandleNames == {"h1", "h2"}
Args == {"x", "y"}

\* the providerID carried in the data of a handle
HandleProviderID(h) == IF h = "h1" THEN "p1" ELSE "p2"

\* HandleRef<T>.value: the three states of a handle.  The operations read
\* value.data.providerID of every handle that is not "invalid", so every
\* state but "invalid" carries data.
HandleValues(h) ==
  { [type |-> "ok", data |-> HandleProviderID(h)],
    [type |-> "error", data |-> HandleProviderID(h)],
    [type |-> "invalid", data |-> NoData] }

\* WorkspaceDecor: both fields are optional; an absent priority is the empty set
Decor(prio, comp) ==
  [workspaceSelectorPriority |-> prio, workspaceSelectorComponent |-> comp]

\* WorkspaceProvider objects: obj is the object's identity; workspaceDecor is
\* the empty set when the provider has no decor.
Provider(obj, pid, decor) ==
  [obj |-> obj, providerID |-> pid, workspaceDecor |-> decor]

\* the providers of Spec, ConcSpec and ActiveSpec: A and B claim the same ID
Providers ==
  { Provider("A", "p1", {Decor({1}, "cA")}),
    Provider("B", "p1", {}),
    Provider("C", "p2", {Decor({}, NoComponent)}) }

\* the providers of SelectorSpec: every shape of decor under three IDs
SelectorDecors ==
  {{}} \cup { {Decor(prio, comp)} : prio \in {{}, {-1}, {0}, {1}},
                                    comp \in {NoComponent, "c1", "c2"} }

SelectorProviders ==
  { Provider(pid, pid, d) : pid \in SelectorIDs, d \in SelectorDecors }

\* what a provider method's promise resolves to: E.right(handle) or E.left(e)
ProviderResults ==
  [tag : {"Right"}, val : {"r1", "r2"}] \cup [tag : {"Left"}, val : {"e1", "e2"}]

-----------------------------------------------------------------------------
(* Helpers shared by the operations *)

\* Map.has(providerID)
HasProvider(pid) ==
  \E i \in DOMAIN registeredProviders : registeredProviders[i].providerID = pid

\* a lookup that falls back to the first registered provider
GetProvider_Fallback(pid) ==
  LET found == { registeredProviders[i] : i \in { j \in DOMAIN registeredProviders :
                                        registeredProviders[j].providerID = pid } }
  IN IF found = {} /\ registeredProviders # <<>> THEN {registeredProviders[1]} ELSE found

\* Map.get(providerID): the set holding the entry, empty for undefined
GetProvider(pid) ==
  { registeredProviders[i] : i \in { j \in DOMAIN registeredProviders :
                                       registeredProviders[j].providerID = pid } }

\* a check that never rejects a handle
IsInvalidHandle_Never(v) == FALSE

\* a check that rejects every handle that is not "ok"
IsInvalidHandle_NotOk(v) == v.type # "ok"

\* the `value.type === "invalid"` test that opens every handle-taking operation
IsInvalidHandle(v) == v.type = "invalid"

ServiceError(e) == [tag |-> "Left", type |-> "SERVICE_ERROR", val |-> e]

\* an unwrap that reports every provider answer as a success
WrapResult_AlwaysRight(r) == [tag |-> "Right", type |-> "none", val |-> r.val]

\* the unwrap after the await: Left(e) -> Left{PROVIDER_ERROR, e}, Right(h) -> Right(h)
WrapResult(r) ==
  IF r.tag = "Left"
    THEN [tag |-> "Left", type |-> "PROVIDER_ERROR", val |-> r.val]
    ELSE [tag |-> "Right", type |-> "none", val |-> r.val]

\* a provider call that always goes to getCollectionHandle
Invocation_CopiedMethod(p, method, h, arg) ==
  [provider |-> p, method |-> "getCollectionHandle", handle |-> h, arg |-> arg]

\* one call of a provider method
Invocation(p, method, h, arg) ==
  [provider |-> p, method |-> method, handle |-> h, arg |-> arg]

\* an operation as called: seen is the handle's value when the operation read it
\* (for getWorkspaceHandle, which takes no handle, the providerID argument)
Call(op, h, arg, seen) == [op |-> op, handle |-> h, arg |-> arg, seen |-> seen]

\* what an operation hands back when its promise settles: the handle it was
\* given and the value it had read, whether it settled without suspending, how
\* many provider methods it called, what the provider answered, and the
\* returned Either
Returned(call, sync, calls, answer, result) ==
  [handle |-> call.handle, seen |-> call.seen, sync |-> sync, calls |-> calls,
   answer |-> answer, result |-> result]

\* the operation settles without suspending
Settle(call, result) ==
  /\ returned' = { Returned(call, TRUE, 0, {}, result) }
  /\ UNCHANGED pending

\* the operation calls the provider and suspends at the await
Suspend(call, inv) ==
  /\ pending' = pending (+) SetToBag({ [call |-> call, invoked |-> {inv}] })
  /\ returned' = {}

-----------------------------------------------------------------------------
(* registerWorkspaceProvider *)

\* a registration that replaces the provider already registered under the ID
RegistryAfterRegister_Overwrite(p) ==
  IF \E i \in DOMAIN registeredProviders : registeredProviders[i].providerID = p.providerID
    THEN [i \in DOMAIN registeredProviders |->
            IF registeredProviders[i].providerID = p.providerID
              THEN p ELSE registeredProviders[i]]
    ELSE Append(registeredProviders, p)

\* the registry after registerWorkspaceProvider(p): has() -> return, else set()
RegistryAfterRegister(p) ==
  IF HasProvider(p.providerID)
    THEN registeredProviders
    ELSE Append(registeredProviders, p)

registerWorkspaceProvider(p) ==
  /\ registeredProviders' = RegistryAfterRegister(p)
  /\ attempted' = attempted \cup {p.obj}
  /\ firstRegistered' = IF firstRegistered[p.providerID] = "none"
                          THEN [firstRegistered EXCEPT ![p.providerID] = p.obj]
                          ELSE firstRegistered
  /\ returned' = {}
  /\ watcherRan' = FALSE
  /\ UNCHANGED <<activeWorkspaceHandle, handles, watcherQueued, pending>>

-----------------------------------------------------------------------------
(* The operations *)

\* getWorkspaceHandle(providerID, workspaceID): no handle, no handle check
getWorkspaceHandle(providerID, workspaceID) ==
  LET call == Call("getWorkspaceHandle", NoHandle, workspaceID,
                   [type |-> "no-handle", data |-> providerID])
      provider == GetProvider(providerID)
  IN /\ IF provider = {}
          THEN Settle(call, ServiceError("INVALID_PROVIDER"))
          ELSE \E p \in provider :
                 Suspend(call, Invocation(p, "getWorkspaceHandle", NoHandle, workspaceID))
     /\ watcherRan' = FALSE
     /\ UNCHANGED <<registeredProviders, activeWorkspaceHandle, handles,
                    watcherQueued, attempted, firstRegistered>>

\* the body every handle-taking operation repeats: the invalid check, the
\* lookup by the handle's providerID, the call of the same-named method
HandleOperation(op, h, arg) ==
  LET v == handles[h]
      call == Call(op, h, arg, v)
  IN /\ IF IsInvalidHandle(v)
          THEN Settle(call, ServiceError("INVALID_HANDLE"))
          ELSE LET provider == GetProvider(v.data)
               IN IF provider = {}
                    THEN Settle(call, ServiceError("INVALID_PROVIDER"))
                    ELSE \E p \in provider : Suspend(call, Invocation(p, op, h, arg))
     /\ watcherRan' = FALSE
     /\ UNCHANGED <<registeredProviders, activeWorkspaceHandle, handles,
                    watcherQueued, attempted, firstRegistered>>

getCollectionHandle(h, collectionID) == HandleOperation("getCollectionHandle", h, collectionID)
getRequestHandle(h, requestID) == HandleOperation("getRequestHandle", h, requestID)
createRESTRootCollection(h, name) == HandleOperation("createRESTRootCollection", h, name)
createRESTChildCollection(h, name) == HandleOperation("createRESTChildCollection", h, name)
editRESTRootCollection(h, name) == HandleOperation("editRESTRootCollection", h, name)
editRESTChildCollection(h, name) == HandleOperation("editRESTChildCollection", h, name)
editRESTCollectionProperties(h, props) == HandleOperation("editRESTCollectionProperties", h, props)
removeRESTRootCollection(h) == HandleOperation("removeRESTRootCollection", h, NoArg)
removeRESTChildCollection(h) == HandleOperation("removeRESTChildCollection", h, NoArg)
createRESTRequest(h, name) == HandleOperation("createRESTRequest", h, name)
removeRESTRequest(h) == HandleOperation("removeRESTRequest", h, NoArg)
editRESTRequest(h, name) == HandleOperation("editRESTRequest", h, name)
saveRESTRequest(h, request) == HandleOperation("saveRESTRequest", h, request)
getRESTCollectionChildrenView(h) == HandleOperation("getRESTCollectionChildrenView", h, NoArg)
getRESTRootCollectionView(h) == HandleOperation("getRESTRootCollectionView", h, NoArg)

\* what a resumed operation returns if it checked its handle again
ResumeResult_Rechecks(c, r) ==
  IF c.call.handle # NoHandle /\ handles[c.call.handle].type = "invalid"
    THEN ServiceError("INVALID_HANDLE")
    ELSE WrapResult(r)

\* what the operation returns when it resumes after its await with the
\* provider's answer r: the unwrap, and nothing else
ResumeResult(c, r) == WrapResult(r)

\* the awaited provider promise resolves with r
ProviderReturn(c, r) ==
  /\ BagIn(c, pending)
  /\ pending' = pending (-) SetToBag({c})
  /\ returned' = { Returned(c.call, FALSE, Cardinality(c.invoked), {r},
                            ResumeResult(c, r)) }
  /\ watcherRan' = FALSE
  /\ UNCHANGED <<registeredProviders, activeWorkspaceHandle, handles,
                 watcherQueued, attempted, firstRegistered>>

-----------------------------------------------------------------------------
(* Handles, the active workspace handle and its watcher *)

\* a provider changes the value of a handle it issued; an invalidated handle
\* stays invalidated.  A change of the handle held as active triggers the
\* watcher ({deep: true} on [handle, handle.value]).
HandleChange(h, v) ==
  /\ handles[h].type # "invalid"
  /\ v \in HandleValues(h) \ {handles[h]}
  /\ handles' = [handles EXCEPT ![h] = v]
  /\ watcherQueued' = (watcherQueued \/ h = activeWorkspaceHandle)
  /\ returned' = {}
  /\ watcherRan' = FALSE
  /\ UNCHANGED <<registeredProviders, activeWorkspaceHandle, pending,
                 attempted, firstRegistered>>

\* the UI assigns activeWorkspaceHandle.value (a public shallowRef): a new
\* value triggers the watcher
SetActiveWorkspaceHandle(x) ==
  /\ x # activeWorkspaceHandle
  /\ activeWorkspaceHandle' = x
  /\ watcherQueued' = TRUE
  /\ returned' = {}
  /\ watcherRan' = FALSE
  /\ UNCHANGED <<registeredProviders, handles, pending, attempted, firstRegistered>>

\* a callback that drops every handle that is not "ok"
WatcherCallback_NotOk(active) ==
  IF active = Undefined THEN active
  ELSE IF handles[active].type # "ok" THEN Undefined
  ELSE active

\* the watcher's callback: what activeWorkspaceHandle is after it ran
WatcherCallback(active) ==
  IF active = Undefined THEN active
  ELSE IF handles[active].type = "invalid" THEN Undefined
  ELSE active

\* the scheduler runs the queued watcher job; the callback's own write to
\* activeWorkspaceHandle queues the job once more
WatcherRun ==
  /\ watcherQueued
  /\ activeWorkspaceHandle' = WatcherCallback(activeWorkspaceHandle)
  /\ watcherQueued' = (activeWorkspaceHandle' # activeWorkspaceHandle)
  /\ returned' = {}
  /\ watcherRan' = TRUE
  /\ UNCHANGED <<registeredProviders, handles, pending, attempted, firstRegistered>>

-----------------------------------------------------------------------------
(* The computed values *)

\* activeWorkspaceDecor: threw is the TypeError of reading .workspaceDecor of
\* the undefined that Map.get returns for an unregistered providerID
activeWorkspaceDecor ==
  IF activeWorkspaceHandle = Undefined
    THEN [threw |-> FALSE, value |-> {}]
  ELSE IF handles[activeWorkspaceHandle].type # "ok"
    THEN [threw |-> FALSE, value |-> {}]
  ELSE LET provider == GetProvider(handles[activeWorkspaceHandle].data)
       IN IF provider = {}
            THEN [threw |-> TRUE, value |-> {}]
            ELSE [threw |-> FALSE,
                  value |-> UNION { p.workspaceDecor : p \in provider }]

\* workspaceDecor?.value.workspaceSelectorPriority ?? 0
SelectorPriority(p) ==
  IF p.workspaceDecor = {} THEN 0
  ELSE LET d == CHOOSE x \in p.workspaceDecor : TRUE
       IN IF d.workspaceSelectorPriority = {} THEN 0
          ELSE CHOOSE n \in d.workspaceSelectorPriority : TRUE

\* a comparator that sorts by ascending priority
Compare_Ascending(a, b) == SelectorPriority(a) - SelectorPriority(b)

\* the comparator handed to sort
Compare(a, b) == SelectorPriority(b) - SelectorPriority(a)

\* Array.prototype.sort is stable: x goes before the first element that the
\* comparator puts after it
InsertSorted(sorted, x) ==
  LET later == { i \in DOMAIN sorted : Compare(sorted[i], x) > 0 }
      at == IF later = {} THEN Len(sorted) + 1
            ELSE CHOOSE i \in later : \A j \in later : i <= j
  IN SubSeq(sorted, 1, at - 1) \o <<x>> \o SubSeq(sorted, at, Len(sorted))

RECURSIVE SortProviders(_)
SortProviders(s) ==
  IF s = <<>> THEN <<>>
  ELSE InsertSorted(SortProviders(SubSeq(s, 1, Len(s) - 1)), s[Len(s)])

\* workspaceDecor?.value?.workspaceSelectorComponent, NoComponent when falsy
SelectorComponent(p) ==
  IF p.workspaceDecor = {} THEN NoComponent
  ELSE (CHOOSE x \in p.workspaceDecor : TRUE).workspaceSelectorComponent

RECURSIVE PushComponents(_)
PushComponents(s) ==
  IF s = <<>> THEN <<>>
  ELSE IF SelectorComponent(s[1]) # NoComponent
    THEN <<SelectorComponent(s[1])>> \o PushComponents(Tail(s))
    ELSE PushComponents(Tail(s))

workspaceSelectorComponents == PushComponents(SortProviders(registeredProviders))

-----------------------------------------------------------------------------
(* Specifications *)

Init ==
  /\ registeredProviders = <<>>
  /\ activeWorkspaceHandle = Undefined
  /\ handles = [h \in HandleNames |-> [type |-> "ok", data |-> HandleProviderID(h)]]
  /\ watcherQueued = FALSE
  /\ pending = EmptyBag
  /\ returned = {}
  /\ watcherRan = FALSE
  /\ attempted = {}
  /\ firstRegistered = [pid \in SelectorIDs |-> "none"]

\* a caller may start an operation while fewer than `limit` are in progress
CanStart(limit) == BagCardinality(pending) < limit

\* the service under callers that start one operation at a time
Next ==
  \/ \E p \in Providers : registerWorkspaceProvider(p)
  \/ \E pid \in ProviderIDs, w \in Args : CanStart(MaxPending) /\ getWorkspaceHandle(pid, w)
  \/ \E h \in HandleNames, a \in Args : CanStart(MaxPending) /\ getCollectionHandle(h, a)
  \/ \E h \in HandleNames, a \in Args : CanStart(MaxPending) /\ getRequestHandle(h, a)
  \/ \E h \in HandleNames, a \in Args : CanStart(MaxPending) /\ createRESTRootCollection(h, a)
  \/ \E h \in HandleNames, a \in Args : CanStart(MaxPending) /\ createRESTChildCollection(h, a)
  \/ \E h \in HandleNames, a \in Args : CanStart(MaxPending) /\ editRESTRootCollection(h, a)
  \/ \E h \in HandleNames, a \in Args : CanStart(MaxPending) /\ editRESTChildCollection(h, a)
  \/ \E h \in HandleNames, a \in Args : CanStart(MaxPending) /\ editRESTCollectionProperties(h, a)
  \/ \E h \in HandleNames : CanStart(MaxPending) /\ removeRESTRootCollection(h)
  \/ \E h \in HandleNames : CanStart(MaxPending) /\ removeRESTChildCollection(h)
  \/ \E h \in HandleNames, a \in Args : CanStart(MaxPending) /\ createRESTRequest(h, a)
  \/ \E h \in HandleNames : CanStart(MaxPending) /\ removeRESTRequest(h)
  \/ \E h \in HandleNames, a \in Args : CanStart(MaxPending) /\ editRESTRequest(h, a)
  \/ \E h \in HandleNames, a \in Args : CanStart(MaxPending) /\ saveRESTRequest(h, a)
  \/ \E h \in HandleNames : CanStart(MaxPending) /\ getRESTCollectionChildrenView(h)
  \/ \E h \in HandleNames : CanStart(MaxPending) /\ getRESTRootCollectionView(h)
  \/ \E c \in BagToSet(pending), r \in ProviderResults : ProviderReturn(c, r)
  \/ \E h \in HandleNames : \E v \in HandleValues(h) : HandleChange(h, v)

Spec == Init /\ [][Next]_vars

\* overlapping operations
ConcNext ==
  \/ \E p \in Providers : registerWorkspaceProvider(p)
  \/ \E h \in HandleNames, a \in Args : CanStart(MaxConcurrent) /\ getRequestHandle(h, a)
  \/ \E h \in HandleNames, a \in Args : CanStart(MaxConcurrent) /\ createRESTRequest(h, a)
  \/ \E c \in BagToSet(pending), r \in ProviderResults : ProviderReturn(c, r)
  \/ \E h \in HandleNames : \E v \in HandleValues(h) : HandleChange(h, v)

ConcSpec == Init /\ [][ConcNext]_vars

\* the active workspace handle, its watcher and the registry
ActiveNext ==
  \/ \E p \in Providers : registerWorkspaceProvider(p)
  \/ \E h \in HandleNames : \E v \in HandleValues(h) : HandleChange(h, v)
  \/ \E x \in HandleNames \cup {Undefined} : SetActiveWorkspaceHandle(x)
  \/ WatcherRun

ActiveSpec == Init /\ [][ActiveNext]_vars

\* the scheduler flushes its queue: a queued watcher job runs
FairActiveSpec == ActiveSpec /\ WF_vars(WatcherRun)

\* the registry under providers of every decor
SelectorNext == \E p \in SelectorProviders : registerWorkspaceProvider(p)

SelectorSpec == Init /\ [][SelectorNext]_vars

-----------------------------------------------------------------------------
(* Properties *)

\* the registry's entries under a providerID, read off the registry itself
EntriesUnder(pid) ==
  { i \in DOMAIN registeredProviders : registeredProviders[i].providerID = pid }

InvalidHandleError == [tag |-> "Left", type |-> "SERVICE_ERROR", val |-> "INVALID_HANDLE"]
InvalidProviderError == [tag |-> "Left", type |-> "SERVICE_ERROR", val |-> "INVALID_PROVIDER"]

\* the four forms a result may take
ResultForms ==
  [tag : {"Right"}, type : {"none"}, val : {"r1", "r2"}]
    \cup [tag : {"Left"}, type : {"SERVICE_ERROR"}, val : {"INVALID_HANDLE", "INVALID_PROVIDER"}]
    \cup [tag : {"Left"}, type : {"PROVIDER_ERROR"}, val : {"e1", "e2"}]

\* C1 (routing): a handle-taking operation whose handle is not invalid and
\* whose providerID is registered calls exactly one provider method: the one
\* of its own name, on the provider registered under that ID, with the handle
\* and the argument it was given; it never settles without that call.
C1_Routing ==
  /\ \A c \in BagToSet(pending) :
       c.call.op # "getWorkspaceHandle" =>
         /\ c.call.seen.type # "invalid"
         /\ \E i \in EntriesUnder(c.call.seen.data) :
              c.invoked = { [provider |-> registeredProviders[i],
                             method |-> c.call.op,
                             handle |-> c.call.handle,
                             arg |-> c.call.arg] }
  /\ \A r \in returned :
       (r.handle # NoHandle /\ r.seen.type # "invalid"
          /\ EntriesUnder(r.seen.data) # {}) => (~ r.sync /\ r.calls = 1)

\* an operation on an ok handle is suspended in its provider call while a
\* second provider is registered
C1_Witness ==
  /\ Len(registeredProviders) = 2
  /\ \E c \in BagToSet(pending) :
       c.call.op # "getWorkspaceHandle" /\ c.call.seen.type = "ok"

\* C2 (two-layer error model): every result is one of the four forms; it is
\* Left{PROVIDER_ERROR, e} exactly when the provider was called and answered
\* Left(e), Right(h) exactly when the provider was called and answered
\* Right(h), and a SERVICE_ERROR only when no provider was called.
C2_ErrorModel ==
  \A r \in returned :
    /\ r.result \in ResultForms
    /\ (r.result.type = "PROVIDER_ERROR") <=>
         (r.calls = 1 /\ \E a \in r.answer : a.tag = "Left")
    /\ (r.result.type = "PROVIDER_ERROR") =>
         r.answer = { [tag |-> "Left", val |-> r.result.val] }
    /\ (r.result.tag = "Right") <=>
         (r.calls = 1 /\ \E a \in r.answer : a.tag = "Right")
    /\ (r.result.tag = "Right") =>
         r.answer = { [tag |-> "Right", val |-> r.result.val] }
    /\ (r.result.type = "SERVICE_ERROR") => (r.calls = 0 /\ r.answer = {})

\* an operation returned the provider's error
C2_Witness ==
  \E r \in returned : r.result.type = "PROVIDER_ERROR" /\ r.result.val = "e2"

\* C3 (invalid handle): an operation given an invalid handle returns
\* Left{SERVICE_ERROR, INVALID_HANDLE} at once and calls no provider, whatever
\* the registry holds; no operation on an invalid handle is ever suspended
\* in a provider call.
C3_InvalidHandle ==
  /\ \A r \in returned :
       r.seen.type = "invalid" =>
         (r.result = InvalidHandleError /\ r.calls = 0 /\ r.sync)
  /\ \A r \in returned :
       (r.sync /\ r.handle # NoHandle /\ handles[r.handle].type = "invalid") =>
         r.result = InvalidHandleError
  /\ \A c \in BagToSet(pending) : c.call.seen.type # "invalid"

\* an invalid handle is refused while no provider at all is registered
C3_Witness ==
  /\ registeredProviders = <<>>
  /\ \E r \in returned : r.seen.type = "invalid" /\ r.result = InvalidHandleError

\* C4 (invalid provider): INVALID_PROVIDER is returned exactly for a target
\* providerID that is not registered when the operation is called, and then
\* no provider is called; every suspended operation's providerID is registered.
C4_InvalidProvider ==
  /\ \A r \in returned :
       r.result = InvalidProviderError =>
         (r.sync /\ r.calls = 0 /\ r.seen.type # "invalid"
            /\ EntriesUnder(r.seen.data) = {})
  /\ \A r \in returned :
       (r.sync /\ r.seen.type # "invalid") =>
         (r.result = InvalidProviderError /\ EntriesUnder(r.seen.data) = {})
  /\ \A r \in returned : ~ r.sync => EntriesUnder(r.seen.data) # {}
  /\ \A c \in BagToSet(pending) : EntriesUnder(c.call.seen.data) # {}

\* a handle of an unregistered provider is refused while another provider is
\* registered
C4_Witness ==
  /\ registeredProviders # <<>>
  /\ \E r \in returned : r.handle # NoHandle /\ r.result = InvalidProviderError

\* C5 (registry): each providerID has at most one entry, an entry exactly when
\* a provider was passed under it, and that entry is the first provider
\* passed; a step never removes or replaces an entry and adds at most one.
C5_Registry ==
  /\ [](\A pid \in SelectorIDs :
          /\ Cardinality(EntriesUnder(pid)) <= 1
          /\ (firstRegistered[pid] = "none") <=> (EntriesUnder(pid) = {})
          /\ \A i \in EntriesUnder(pid) :
               registeredProviders[i].obj = firstRegistered[pid])
  /\ [][/\ \A i \in DOMAIN registeredProviders :
             /\ i \in DOMAIN registeredProviders'
             /\ registeredProviders'[i] = registeredProviders[i]
        /\ Len(registeredProviders') <= Len(registeredProviders) + 1]_vars

\* A stays registered under p1 after B was passed under the same ID, and C is
\* registered beside it
C5_Witness ==
  /\ {"A", "B", "C"} \subseteq attempted
  /\ firstRegistered["p1"] = "A"
  /\ Len(registeredProviders) = 2
  /\ \E i \in DOMAIN registeredProviders : registeredProviders[i].obj = "A"

C7_DecorLookup ==
  /\ ~ activeWorkspaceDecor.threw
  /\ (activeWorkspaceHandle # Undefined /\ handles[activeWorkspaceHandle].type = "ok")
       => EntriesUnder(handles[activeWorkspaceHandle].data) # {}

\* a provider's priority and component as the claim words them
ClaimPriority(p) ==
  IF \E d \in p.workspaceDecor : d.workspaceSelectorPriority # {}
    THEN CHOOSE n \in UNION { d.workspaceSelectorPriority : d \in p.workspaceDecor } : TRUE
    ELSE 0

ClaimHasComponent(p) ==
  \E d \in p.workspaceDecor : d.workspaceSelectorComponent # NoComponent

\* C8 (selector components): the list holds the component of each registered
\* provider that has one, once, and of no other; by non-increasing priority
\* (absent counts as 0), providers of equal priority in registration order.
C8_SelectorComponents ==
  LET reg == registeredProviders
      eligible == { i \in DOMAIN reg : ClaimHasComponent(reg[i]) }
      items == workspaceSelectorComponents
  IN /\ Len(items) = Cardinality(eligible)
     /\ \E f \in [1..Len(items) -> eligible] :
          /\ \A k, l \in 1..Len(items) :
               k < l =>
                 \/ ClaimPriority(reg[f[k]]) > ClaimPriority(reg[f[l]])
                 \/ /\ ClaimPriority(reg[f[k]]) = ClaimPriority(reg[f[l]])
                    /\ f[k] < f[l]
          /\ \A k \in 1..Len(items) :
               \E d \in reg[f[k]].workspaceDecor :
                 items[k] = d.workspaceSelectorComponent

\* three providers: the first has a component and no priority, the second a
\* priority and no component, the third both; the third's component comes first
C8_Witness ==
  /\ Len(registeredProviders) = 3
  /\ registeredProviders[1].workspaceDecor = {Decor({}, "c1")}
  /\ registeredProviders[2].workspaceDecor = {Decor({1}, NoComponent)}
  /\ registeredProviders[3].workspaceDecor = {Decor({1}, "c2")}
  /\ workspaceSelectorComponents = <<"c2", "c1">>

\* C9 (check once before the await): an operation that was suspended returns
\* the wrapped answer of its one provider call, whatever has become of its
\* handle and of the registry meanwhile; each suspended operation's call went
\* to the first provider registered under its own handle's providerID.
C9_CheckOnce ==
  /\ \A r \in returned :
       ~ r.sync =>
         /\ r.calls = 1
         /\ \E a \in r.answer :
              /\ r.answer = {a}
              /\ r.result = IF a.tag = "Left"
                              THEN [tag |-> "Left", type |-> "PROVIDER_ERROR", val |-> a.val]
                              ELSE [tag |-> "Right", type |-> "none", val |-> a.val]
  /\ \A c \in BagToSet(pending) :
       /\ Cardinality(c.invoked) = 1
       /\ \A inv \in c.invoked :
            /\ inv.provider.obj = firstRegistered[c.call.seen.data]
            /\ inv.handle = c.call.handle

\* an operation returns the provider's handle although its own handle was
\* invalidated during the call, while another operation is still suspended
C9_Witness ==
  /\ BagCardinality(pending) >= 1
  /\ \E r \in returned :
       /\ ~ r.sync
       /\ r.seen.type = "ok"
       /\ handles[r.handle].type = "invalid"
       /\ r.result.tag = "Right"

====
